---------------------------- MODULE Spec2Model ----------------------------
(***************************************************************************)
(* Model of tap-duckdb: DuckDBConnector (connection creation, catalog     *)
(* discovery, table-name parsing) and DuckDBStream (record retrieval),    *)
(* src/tap_duckdb/client.py.                                               *)
(*                                                                         *)
(* Python strings are sequences of one-character strings, so that         *)
(* str.split and f-string concatenation are computed rather than assumed. *)
(* An Optional[str] is a record [isNone, s].                               *)
(***************************************************************************)
EXTENDS Integers, Sequences, FiniteSets, TLC

VARIABLES
    config,              \* self.config (only "database" is read by the code)
    pc,                  \* position of the running method
    raised,              \* exception that left the running method, or "none"
    full_table_name,     \* argument of parse_full_table_name
    parse_ret,           \* tuple returned by parse_full_table_name (<<>> if none)
    schema_names,        \* what get_schema_names enumerates
    catalog,             \* the engine: schema name -> list of (object name, is_view)
    base_database,       \* database the base-class reflection puts on an entry
    si,                  \* index of the schema the outer loop is at
    schema_name,         \* loop variable schema_name, after the override
    pending,             \* objects of the current schema not yet reflected
    queried,             \* schema names passed to get_object_names so far
    result,              \* result list of discover_catalog_entries
    engine_stream_results, \* stream_results execution option of the engine
    connection,          \* connection returned by create_sqlalchemy_connection
    partition,           \* argument of get_records
    base_records,        \* records the base-class get_records yields for partition
    base_end,            \* how the base generator ends
    yielded,             \* records DuckDBStream.get_records has yielded
    stream_end           \* how DuckDBStream.get_records ended ("running" before)

vars == <<config, pc, raised, full_table_name, parse_ret, schema_names, catalog,
          base_database, si, schema_name, pending, queried, result,
          engine_stream_results, connection, partition, base_records, base_end,
          yielded, stream_end>>

parseVars    == <<full_table_name, parse_ret>>
discoverVars == <<schema_names, catalog, base_database, si, schema_name,
                  pending, queried, result>>
connVars     == <<engine_stream_results, connection>>
streamVars   == <<partition, base_records, base_end, yielded, stream_end>>

---------------------------------------------------------------------------
(* Bounds *)
MaxNameLen == 5      \* longest full table name tried
MaxSchemas == 2      \* most schema names the engine enumerates
MaxRecords == 3      \* most records the base-class strategy yields

---------------------------------------------------------------------------
(* Strings *)
SEP == "."

Chars == {"a", "b", SEP}

Strings(n) == UNION {[1..k -> Chars] : k \in 0..n}

None == [isNone |-> TRUE, s |-> <<>>]

Some(str) == [isNone |-> FALSE, s |-> str]

\* str(x) as an f-string placeholder renders it
PyStr(opt) == IF opt.isNone THEN <<"N", "o", "n", "e">> ELSE opt.s

\* str.split(".")
RECURSIVE split(_)
split(str) ==
    IF str = <<>> THEN << <<>> >>
    ELSE LET rest == split(Tail(str)) IN
         IF Head(str) = SEP
         THEN << <<>> >> \o rest
         ELSE << <<Head(str)>> \o Head(rest) >> \o Tail(rest)

\* ".".join(parts)
RECURSIVE join(_)
join(parts) ==
    IF Len(parts) = 0 THEN <<>>
    ELSE IF Len(parts) = 1 THEN parts[1]
    ELSE parts[1] \o <<SEP>> \o join(Tail(parts))

ConfigDatabases == { <<"m", "y", "d", "b">>, <<"m", "a", "i", "n">> }

---------------------------------------------------------------------------
(* DuckDBConnector.parse_full_table_name *)

\* the base-class behaviour: the schema part is returned as found
parse_full_table_name_bare(cfg, name) ==
    LET parts == split(name)
        n == Len(parts)
        db_name == IF n = 3 THEN Some(parts[1]) ELSE None
        schema == IF n = 2 THEN Some(parts[1])
                  ELSE IF n = 3 THEN Some(parts[2]) ELSE None
    IN IF n \notin {1, 2, 3}
       THEN [raised |-> "UnboundLocalError", ret |-> <<>>]
       ELSE [raised |-> "none",
             ret |-> <<db_name, schema, Some(IF n = 1 THEN name ELSE parts[n])>>]

\* the database part of a three-part name is dropped
parse_full_table_name_nodb(cfg, name) ==
    LET parts == split(name)
        n == Len(parts)
        schema == IF n = 2 THEN Some(parts[1])
                  ELSE IF n = 3 THEN Some(parts[2]) ELSE None
    IN IF n \notin {1, 2, 3}
       THEN [raised |-> "UnboundLocalError", ret |-> <<>>]
       ELSE [raised |-> "none",
             ret |-> <<None,
                       Some(cfg.database \o <<SEP>> \o PyStr(schema)),
                       Some(IF n = 1 THEN name ELSE parts[n])>>]

parse_full_table_name(cfg, name) ==
    LET parts == split(name)
        n == Len(parts)
        db_name == IF n = 3 THEN Some(parts[1]) ELSE None
        schema == IF n = 2 THEN Some(parts[1])
                  ELSE IF n = 3 THEN Some(parts[2]) ELSE None
        \* table_name is assigned only in the three branches
        bound == n \in {1, 2, 3}
    IN IF ~bound
       THEN [raised |-> "UnboundLocalError", ret |-> <<>>]
       ELSE [raised |-> "none",
             ret |-> <<db_name,
                       Some(cfg.database \o <<SEP>> \o PyStr(schema)),
                       Some(IF n = 1 THEN name ELSE parts[n])>>]

---------------------------------------------------------------------------
(* Discovery *)

\* schema names an introspection can enumerate: bare, database-qualified
\* (two databases holding a schema of the same name), and a qualified name
\* whose schema itself holds the separator
SchemaNameUniverse ==
    { <<"m">>, <<"s">>,
      <<"d", SEP, "m">>, <<"e", SEP, "m">>,
      <<"d", SEP, "s", SEP, "x">> }

EngineSchemas == { <<"m">>, <<"s">>, <<"s", SEP, "x">> }

Table(n) == [name |-> n, is_view |-> FALSE]

View(n) == [name |-> n, is_view |-> TRUE]

ObjectLists == { <<>>, <<Table(<<"t">>)>>, <<Table(<<"t">>), View(<<"v">>)>> }

BaseDatabases == { None, Some(<<"x">>) }

DistinctSeqs(S, n) ==
    UNION { {q \in [1..k -> S] : \A i, j \in 1..k : i # j => q[i] # q[j]}
            : k \in 0..n }

\* self.get_schema_names(engine, inspected)
get_schema_names(names) == names

\* self.get_object_names(engine, inspected, schema_name)
get_object_names(cat, schema) ==
    IF schema \in DOMAIN cat THEN cat[schema] ELSE <<>>

\* the override at the top of the outer loop body
strip_database(name) ==
    LET parts == split(name) IN
    IF Len(parts) > 1 THEN parts[2] ELSE name

\* super().discover_catalog_entry(...)
base_discover_catalog_entry(schema, table_name, is_view, base_db) ==
    [database |-> base_db, schema_name |-> schema,
     table |-> table_name, is_view |-> is_view]

\* the database of the reflected entry is left as the base class set it
discover_catalog_entry_keep(cfg, schema, table_name, is_view, base_db) ==
    base_discover_catalog_entry(schema, table_name, is_view, base_db)

discover_catalog_entry(cfg, schema, table_name, is_view, base_db) ==
    [base_discover_catalog_entry(schema, table_name, is_view, base_db)
        EXCEPT !.database = Some(cfg.database)]

---------------------------------------------------------------------------
(* Records *)
Partitions == {"None", "p"}

RecordIds == {"r1", "r2"}

BaseEnds == {"StopIteration", "NotImplementedError"}

RecordSeqs(n) == UNION {[1..k -> RecordIds] : k \in 0..n}

\* the partition is not handed on to the base class
super_partition_none(p) == "None"

\* the argument of super().get_records(partition)
super_partition(p) == p

---------------------------------------------------------------------------
(* Connection *)

\* self.create_sqlalchemy_engine(): the engine carries its own default
\* execution options
create_sqlalchemy_engine(default_stream_results) ==
    [stream_results |-> default_stream_results]

\* Engine.connect(): the connection inherits the engine's execution options
connect(engine) == [open |-> TRUE, stream_results |-> engine.stream_results]

create_sqlalchemy_connection(default_stream_results) ==
    connect(create_sqlalchemy_engine(default_stream_results))

---------------------------------------------------------------------------
Idle ==
    /\ pc = "idle"
    /\ raised = "none"
    /\ full_table_name = <<>>
    /\ parse_ret = <<>>
    /\ schema_names = <<>>
    /\ catalog = [s \in EngineSchemas |-> <<>>]
    /\ base_database = None
    /\ si = 0
    /\ schema_name = <<>>
    /\ pending = <<>>
    /\ queried = <<>>
    /\ result = <<>>
    /\ engine_stream_results = FALSE
    /\ connection = [open |-> FALSE, stream_results |-> FALSE]
    /\ partition = "None"
    /\ base_records = [p \in Partitions |-> <<>>]
    /\ base_end = [p \in Partitions |-> "StopIteration"]
    /\ yielded = <<>>
    /\ stream_end = "running"

Init ==
    /\ config \in [database : ConfigDatabases]
    /\ Idle

---------------------------------------------------------------------------
(* parse_full_table_name *)
ParseCall ==
    /\ pc = "idle"
    /\ \E name \in Strings(MaxNameLen) :
         LET r == parse_full_table_name(config, name) IN
         /\ full_table_name' = name
         /\ parse_ret' = r.ret
         /\ raised' = r.raised
    /\ pc' = "parse_done"
    /\ UNCHANGED <<config, discoverVars, connVars, streamVars>>

---------------------------------------------------------------------------
(* create_sqlalchemy_connection *)
ConnectionCall ==
    /\ pc = "idle"
    /\ \E sr \in BOOLEAN :
         /\ engine_stream_results' = sr
         /\ connection' = create_sqlalchemy_connection(sr)
    /\ pc' = "connection_done"
    /\ UNCHANGED <<config, raised, parseVars, discoverVars, streamVars>>

---------------------------------------------------------------------------
(* discover_catalog_entries *)
DiscoverCall ==
    /\ pc = "idle"
    /\ schema_names' \in DistinctSeqs(SchemaNameUniverse, MaxSchemas)
    /\ catalog' \in [EngineSchemas -> ObjectLists]
    /\ base_database' \in BaseDatabases
    /\ result' = <<>>
    /\ si' = 0
    /\ pc' = "schemas"
    /\ UNCHANGED <<config, raised, schema_name, pending, queried,
                   parseVars, connVars, streamVars>>

\* for schema_name in ...: parts = schema_name.split("."); ...;
\* the call of get_object_names
DiscoverNextSchema ==
    /\ pc = "schemas"
    /\ si < Len(get_schema_names(schema_names))
    /\ si' = si + 1
    /\ schema_name' = strip_database(get_schema_names(schema_names)[si + 1])
    /\ pending' = get_object_names(catalog, schema_name')
    /\ queried' = Append(queried, schema_name')
    /\ pc' = "objects"
    /\ UNCHANGED <<config, raised, schema_names, catalog, base_database, result,
                   parseVars, connVars, streamVars>>

\* one pass of the inner loop body
DiscoverEntry ==
    /\ pc = "objects"
    /\ pending # <<>>
    /\ result' = Append(result,
                        discover_catalog_entry(config, schema_name,
                                               Head(pending).name,
                                               Head(pending).is_view,
                                               base_database))
    /\ pending' = Tail(pending)
    /\ UNCHANGED <<config, pc, raised, schema_names, catalog, base_database, si,
                   schema_name, queried, parseVars, connVars, streamVars>>

\* a schema without objects aborts the discovery
DiscoverSchemaDone_raise ==
    /\ pc = "objects"
    /\ pending = <<>>
    /\ IF get_object_names(catalog, schema_name) = <<>>
       THEN pc' = "discover_done" /\ raised' = "DiscoveryError"
       ELSE pc' = "schemas" /\ raised' = raised
    /\ UNCHANGED <<config, schema_names, catalog, base_database, si,
                   schema_name, pending, queried, result,
                   parseVars, connVars, streamVars>>

\* the inner loop is exhausted
DiscoverSchemaDone ==
    /\ pc = "objects"
    /\ pending = <<>>
    /\ pc' = "schemas"
    /\ UNCHANGED <<config, raised, schema_names, catalog, base_database, si,
                   schema_name, pending, queried, result,
                   parseVars, connVars, streamVars>>

\* return result
DiscoverReturn ==
    /\ pc = "schemas"
    /\ si = Len(get_schema_names(schema_names))
    /\ pc' = "discover_done"
    /\ UNCHANGED <<config, raised, discoverVars, parseVars, connVars, streamVars>>

---------------------------------------------------------------------------
(* DuckDBStream.get_records *)
StreamCall ==
    /\ pc = "idle"
    /\ partition' \in Partitions
    /\ base_records' \in [Partitions -> RecordSeqs(MaxRecords)]
    /\ base_end' \in [Partitions -> BaseEnds]
    /\ yielded' = <<>>
    /\ stream_end' = "running"
    /\ pc' = "stream"
    /\ UNCHANGED <<config, raised, parseVars, discoverVars, connVars>>

\* one record of yield from super().get_records(partition)
StreamYield ==
    /\ pc = "stream"
    /\ Len(yielded) < Len(base_records[super_partition(partition)])
    /\ yielded' = Append(yielded,
                         base_records[super_partition(partition)][Len(yielded) + 1])
    /\ UNCHANGED <<config, pc, raised, partition, base_records, base_end,
                   stream_end, parseVars, discoverVars, connVars>>

\* the base generator ends; its end is the end of the generator
StreamEnd ==
    /\ pc = "stream"
    /\ Len(yielded) = Len(base_records[super_partition(partition)])
    /\ stream_end' = base_end[super_partition(partition)]
    /\ raised' = IF base_end[super_partition(partition)] = "StopIteration"
                 THEN "none" ELSE base_end[super_partition(partition)]
    /\ pc' = "stream_done"
    /\ UNCHANGED <<config, partition, base_records, base_end, yielded,
                   parseVars, discoverVars, connVars>>

---------------------------------------------------------------------------
\* the caller drops the outcome; the connector is ready for the next call
Return ==
    /\ pc \in {"parse_done", "connection_done", "discover_done", "stream_done"}
    /\ pc' = "idle"
    /\ raised' = "none"
    /\ full_table_name' = <<>>
    /\ parse_ret' = <<>>
    /\ schema_names' = <<>>
    /\ catalog' = [s \in EngineSchemas |-> <<>>]
    /\ base_database' = None
    /\ si' = 0
    /\ schema_name' = <<>>
    /\ pending' = <<>>
    /\ queried' = <<>>
    /\ result' = <<>>
    /\ engine_stream_results' = FALSE
    /\ connection' = [open |-> FALSE, stream_results |-> FALSE]
    /\ partition' = "None"
    /\ base_records' = [p \in Partitions |-> <<>>]
    /\ base_end' = [p \in Partitions |-> "StopIteration"]
    /\ yielded' = <<>>
    /\ stream_end' = "running"
    /\ UNCHANGED config

Next ==
    \/ ParseCall
    \/ ConnectionCall
    \/ DiscoverCall
    \/ DiscoverNextSchema
    \/ DiscoverEntry
    \/ DiscoverSchemaDone
    \/ DiscoverReturn
    \/ StreamCall
    \/ StreamYield
    \/ StreamEnd
    \/ Return

Spec == Init /\ [][Next]_vars

---------------------------------------------------------------------------
(* Properties *)

Parts == split(full_table_name)

\* components without the separator, short enough for a three-part name
Components ==
    {c \in Strings(MaxNameLen - 3) : \A i \in 1..Len(c) : c[i] # SEP}

\* format(d, s, t): the present parts joined by the separator
format(d, s, t) == join(<<d, s, t>>)

\* a schema name with only its leading database component removed
WithoutDatabase(name) ==
    LET parts == split(name) IN
    IF Len(parts) > 1 THEN join(Tail(parts)) ELSE name

RECURSIVE ObjectCount(_, _)
ObjectCount(cat, names) ==
    IF names = <<>> THEN 0
    ELSE Len(get_object_names(cat, Head(names))) + ObjectCount(cat, Tail(names))

IsPrefix(p, q) == Len(p) <= Len(q) /\ SubSeq(q, 1, Len(p)) = p

\* C1: for a name with a schema component S (two or three parts),
\* parse_full_table_name returns the schema "D.S", D the configured database,
\* never the bare S.
C1_SchemaQualified ==
    (pc = "parse_done" /\ Len(Parts) \in {2, 3}) =>
        /\ raised = "none"
        /\ Len(parse_ret) = 3
        /\ parse_ret[2] = Some(config.database \o <<SEP>> \o Parts[Len(Parts) - 1])
        /\ parse_ret[2] # Some(Parts[Len(Parts) - 1])

C1_Witness ==
    /\ pc = "parse_done"
    /\ config.database = <<"m", "y", "d", "b">>
    /\ full_table_name = <<"a", SEP, "b">>
    /\ Len(parse_ret) = 3
    /\ parse_ret[2] = Some(<<"m", "y", "d", "b", SEP, "a">>)

\* C2: a name of more than three parts fails with InvalidNameError and
\* returns no tuple; a name of one, two or three parts returns a tuple
\* without raising.
C2_InvalidNameError ==
    pc = "parse_done" =>
        IF Len(Parts) > 3
        THEN raised = "InvalidNameError" /\ parse_ret = <<>>
        ELSE raised = "none" /\ Len(parse_ret) = 3

\* C3: a one-part name returns (absent, absent, table), the table being the
\* whole input.
C3_OnePartAbsent ==
    (pc = "parse_done" /\ Len(Parts) = 1) =>
        /\ raised = "none"
        /\ parse_ret = <<None, None, Some(full_table_name)>>

\* C4 (as stated): parsing format(d, s, t) of separator-free components
\* returns exactly (d, s, t).
C4_RoundTrip ==
    pc = "parse_done" =>
      \A d \in Components, s \in Components, t \in Components :
        full_table_name = format(d, s, t) =>
            parse_ret = <<Some(d), Some(s), Some(t)>>

\* C4 (amended): parsing format(d, s, t) of separator-free components
\* returns (d, "D.s", t), D the configured database: the database and the
\* table round-trip, the schema comes back qualified.
C4_RoundTripQualified ==
    pc = "parse_done" =>
      \A d \in Components, s \in Components, t \in Components :
        full_table_name = format(d, s, t) =>
            /\ raised = "none"
            /\ parse_ret = <<Some(d),
                             Some(config.database \o <<SEP>> \o s),
                             Some(t)>>

C4_Witness ==
    /\ pc = "parse_done"
    /\ config.database = <<"m", "a", "i", "n">>
    /\ full_table_name = format(<<"a">>, <<"b">>, <<"a">>)
    /\ parse_ret = <<Some(<<"a">>),
                     Some(<<"m", "a", "i", "n", SEP, "b">>),
                     Some(<<"a">>)>>

\* C5: in the list a discovery pass returns, no two entries share the same
\* (database, schema, table).
C5_UniqueTriples ==
    pc = "discover_done" =>
        \A i, j \in 1..Len(result) :
            i # j =>
                <<result[i].database, result[i].schema_name, result[i].table>>
                # <<result[j].database, result[j].schema_name, result[j].table>>

\* C6: every entry discovery produces carries the configured database,
\* whatever the base class put on it and whatever prefix the enumerated
\* schema name had, and discovery never changes the configuration.
C6_DatabaseFromConfig ==
    /\ [](\A i \in 1..Len(result) : result[i].database = Some(config.database))
    /\ [][config' = config]_vars

C6_Witness ==
    /\ pc = "discover_done"
    /\ base_database = Some(<<"x">>)
    /\ schema_names = << <<"d", SEP, "m">>, <<"s">> >>
    /\ Len(result) = 3
    /\ \A i \in 1..3 : result[i].database = Some(config.database)

\* C7: every connection create_sqlalchemy_connection returns has
\* stream_results enabled.
C7_StreamResults ==
    pc = "connection_done" => connection.open /\ connection.stream_results

\* C8: discovery raises nothing, visits every enumerated schema, and returns
\* exactly the objects of the schemas it asked for: a schema without objects
\* contributes nothing and stops nothing, and a database without objects
\* gives the empty list.
C8_EmptySchemas ==
    pc = "discover_done" =>
        /\ raised = "none"
        /\ Len(queried) = Len(schema_names)
        /\ Len(result) = ObjectCount(catalog, queried)
        /\ (\A s \in DOMAIN catalog : catalog[s] = <<>>) => result = <<>>

C8_Witness ==
    /\ pc = "discover_done"
    /\ schema_names = << <<"m">>, <<"s">> >>
    /\ catalog[<<"m">>] = <<>>
    /\ Len(catalog[<<"s">>]) = 2
    /\ Len(result) = 2
    /\ raised = "none"

\* C8, the database without objects
C8_WitnessEmpty ==
    /\ pc = "discover_done"
    /\ Len(schema_names) = 2
    /\ \A s \in DOMAIN catalog : catalog[s] = <<>>
    /\ result = <<>>

\* C9: the schema name used to enumerate the objects and to reflect each
\* entry is the enumerated name with only its leading database component
\* removed; a name without separator is used unchanged.
C9_StripOnlyDatabase ==
    pc \in {"objects", "discover_done"} =>
        /\ \A i \in 1..Len(queried) :
               queried[i] = WithoutDatabase(schema_names[i])
        /\ \A k \in 1..Len(result) :
               \E i \in 1..Len(queried) :
                   result[k].schema_name = WithoutDatabase(schema_names[i])

\* C10: get_records yields exactly the records of the base-class strategy
\* for its partition, in order, and ends when and as the base sequence ends.
C10_SameRecords ==
    /\ IsPrefix(yielded, base_records[partition])
    /\ stream_end # "running" =>
           /\ yielded = base_records[partition]
           /\ stream_end = base_end[partition]

C10_Witness ==
    /\ pc = "stream_done"
    /\ partition = "p"
    /\ base_records["p"] = <<"r1", "r2", "r1">>
    /\ base_records["None"] = <<"r2">>
    /\ yielded = <<"r1", "r2", "r1">>
    /\ stream_end = "StopIteration"

=============================================================================
